---- MODULE Spec2Model ----
(***************************************************************************)
(* A model of scripts/build.py: the driver that downloads CPython, builds  *)
(* it for a list of Android hosts through Android/android.py, post-        *)
(* processes every host's install prefix and packs one Magisk module per   *)
(* host.                                                                   *)
(*                                                                         *)
(* Spec         the pipeline of main(): a first run over a fresh project   *)
(*              directory and, once that has ended in any way, a second    *)
(*              run over what the first one left                           *)
(* SpecDebloat  the debloat pass entry by entry, over the prefixes of two  *)
(*              built hosts                                                *)
(* SpecShebang  the shebang pass file by file, over bin/ of two built      *)
(*              hosts                                                      *)
(***************************************************************************)
EXTENDS Integers, Sequences, FiniteSets, TLC

\* ------------------------------------------------------------------ bounds

\* The longest configured host list.
MaxHosts == 2

\* ------------------------------------------------------------- value sets

Unset == "<unset>"
None == "<none>"
NoHost == "-"

\* The environment variables the model follows: the one init() requires and
\* one a configuration typically overrides.
EnvVars == {"ANDROID_HOME", "CC"}

\* Host triples a configuration may name: two that arch_mapping knows (by
\* the same architecture code) and one it does not know.
HostNames ==
    {"armv7a-linux-androideabi", "arm-linux-androideabi", "riscv64-linux-android"}

\* File names `android.py package` may leave in a host's dist/ directory.
PkgNames == {"python-android.tar.gz"}

\* The contents of patches/: no directory, or the patch files in it.
NoDir == {"<no directory>"}
PatchDirs == {NoDir, {}, {"0001.patch"}}

BOOL == {TRUE, FALSE}

SeqsUpTo(S, n) == UNION {[1..k -> S] : k \in 0..n}

Range(s) == {s[i] : i \in 1..Len(s)}

IsPrefix(s, t) == Len(s) <= Len(t) /\ SubSeq(t, 1, Len(s)) = s

\* ---------------------------------------------------------- configuration

NoEnv == [v \in EnvVars |-> Unset]

\* python.configure_env: a mapping (Unset: the variable is not in it), or a
\* value of another type, which the dataclass accepts unchecked.
ConfigureEnvs ==
    {[mapping |-> TRUE, vars |-> NoEnv],
     [mapping |-> TRUE, vars |-> [NoEnv EXCEPT !["CC"] = "clang"]]}

MistypedPythonConfig ==
    [hosts |-> <<>>, apply_patches |-> FALSE,
     configure_env |-> [mapping |-> FALSE, vars |-> NoEnv], package |-> FALSE]

PythonConfig ==
    [hosts : SeqsUpTo(HostNames, MaxHosts),
     apply_patches : BOOL,
     configure_env : ConfigureEnvs,
     package : BOOL]

ModuleConfig == [debloat : BOOL, strip : BOOL, replace_shebangs : BOOL]

NoPythonConfig ==
    [hosts |-> <<>>, apply_patches |-> FALSE,
     configure_env |-> [mapping |-> TRUE, vars |-> NoEnv], package |-> FALSE]

NoModuleConfig == [debloat |-> FALSE, strip |-> FALSE, replace_shebangs |-> FALSE]

\* The post-processing passes and the Module Builder read python.hosts and
\* nothing else of the python table, so the module table's switches are
\* varied over a python table that is plain but for its hosts, and the python
\* table over a module table with every pass switched on.
Plain(p) ==
    /\ ~p.apply_patches
    /\ ~p.package
    /\ p.configure_env.vars = NoEnv

AllPasses(m) == m.debloat /\ m.strip /\ m.replace_shebangs

\* build.toml: absent, not TOML, without a python or module table, with a
\* field missing from a table, with every field there but configure_env of
\* the wrong type, or complete and well typed.
BrokenForms == {"missing", "unparsable", "no_table", "missing_field"}

ConfigFiles ==
    [form : BrokenForms, python : {NoPythonConfig}, module : {NoModuleConfig}]
    \cup [form : {"mistyped"}, python : {MistypedPythonConfig},
          module : {NoModuleConfig}]
    \cup {c \in [form : {"ok"}, python : PythonConfig, module : ModuleConfig] :
            AllPasses(c.module) \/ Plain(c.python)}

\* module/module.prop: absent, or its lines as key and value.
Line(k, v) == [key |-> k, value |-> v]

PropFiles ==
    {<<Line("id", "py2droid"), Line("name", "Py2Droid"), Line("version", "v1"),
       Line("description", "old")>>,
     <<Line("version", "v1"), Line("name", "Py2Droid")>>,
     <<Line("id", "py2droid"), Line("name", "Py2Droid")>>}

\* ------------------------------------------------------------- pure parts

RECURSIVE SelectValues(_, _)
SelectValues(lines, keys) ==
    IF lines = <<>> THEN <<>>
    ELSE LET rest == SelectValues(Tail(lines), keys)
         IN IF Head(lines).key \in keys THEN <<Head(lines).value>> \o rest
            ELSE rest

\* getprops(file, *keys): the values of the lines whose key is one of `keys`,
\* in the order of the lines.
getprops(lines, keys) == SelectValues(lines, keys)

arch_mapping ==
    ("aarch64-linux-android" :> "arm64")
    @@ ("armv7a-linux-androideabi" :> "arm")
    @@ ("arm-linux-androideabi" :> "arm")
    @@ ("x86_64-linux-android" :> "x64")
    @@ ("i686-linux-android" :> "x86")

\* self.arch_mapping.get(host, "unknown")
ArchOf(host) ==
    IF host \in DOMAIN arch_mapping THEN arch_mapping[host] ELSE "unknown"

\* The version get_cpython reads from the name of the source archive.
PythonVer == "3.12.1"

\* DIST_DIR / f"{module_name}-{module_ver}-{arch}.zip"
ZipName(name, ver, arch) == <<name, ver, arch, "zip">>

\* f"python-{python_ver}-{arch}.tar.xz"
TarName(ver, arch) == <<"python", ver, arch, "tar.xz">>

\* configure_env = os.environ.copy(); configure_env.update(extra)
Overlay(env, extra) ==
    [v \in EnvVars |-> IF extra[v] # Unset THEN extra[v] ELSE env[v]]

\* os.environ once build_cpython has made configure_env: the update went to
\* the copy.
EnvironAfterCopy(env, extra) == env

\* run(cmd) called without env=.
NoneEnv == [v \in EnvVars |-> None]

\* A run() that hands every child a copy of os.environ, whatever env= says.
RunEnvParentOnly(env, parent) == parent

\* run(): the child gets `env`, or a copy of os.environ when none is given.
RunEnv(env, parent) == IF env = NoneEnv THEN parent ELSE env

\* A run() left at subprocess.run's own default, check=False.
RunNeverRaises(rc, check) == FALSE

\* run(): subprocess.run(check=...) raises on a nonzero exit status.
RunRaises(rc, check) == check /\ rc = "fail"

\* ------------------------------------------------------------------ state

VARIABLES
    \* the process environment and the project directory
    environ,        \* os.environ
    cfgFile,        \* build.toml
    sources,        \* the source tree under build/: absent, partial, present
    crossBuild,     \* cross-build/build and cross-build/<host>
    hostDist,       \* cross-build/<host>/dist: the file names in it
    distDir,        \* dist/: the files in it, by name
    \* one run of main()
    resumed,        \* FALSE in the first run, TRUE in the one after it
    pc,             \* where main() is
    python_conf,
    module_conf,
    configure_env,  \* build_cpython's local
    idx,            \* the position of a loop over python_conf.hosts
    todo,           \* the patch files apply_patches has not reached
    module_name,
    module_ver,
    error,          \* the exception that ended the run
    abortedAt,      \* where the run was when it ended early
    trace,          \* what the run did: commands, log lines, file moves
    \* history
    buildGate,      \* whether cross-build/build existed when build_cpython looked
    gates,          \* per host looked at: whether cross-build/<host> existed
    startedComplete,\* the run began over finished sources and builds
    prevEnd,        \* how the previous run ended
    completed,      \* the build steps that completed in any run
    replaced,       \* the files of dist/ this run has written over
    \* the debloat pass in detail
    debloat_patterns,
    tree,           \* per host: the entries under its prefix
    tree0,          \* the same, as the pass found them
    attempted,      \* the entries of the current host the glob has yielded
    failedRemoval,  \* host and entry of every removal that raised OSError
    \* the shebang pass in detail
    shebang_mapping,
    bindir,         \* per host: the entries of prefix/bin and the files behind them
    bindir0,        \* the same, as the pass found them
    pending,        \* the entries of the current host's bin/ yet to be visited
    rewrites,       \* per host and file: how often replace_shebang returned True
    shellTried      \* host and entry of every file tried against the shell pattern

fsVars == <<sources, crossBuild, hostDist, distDir>>
runVars ==
    <<resumed, pc, python_conf, module_conf, configure_env, idx, todo, module_name,
      module_ver, error, abortedAt, trace>>
histVars == <<buildGate, gates, startedComplete, prevEnd, completed>>
debloatVars == <<debloat_patterns, tree, tree0, attempted, failedRemoval>>
shebangVars == <<shebang_mapping, bindir, bindir0, pending, rewrites, shellTried>>
passVars == <<debloatVars, shebangVars>>
vars == <<environ, cfgFile, fsVars, runVars, histVars, replaced, passVars>>

Dirs == {"build"} \cup HostNames

\* A cross-build directory: none, dir (created, nothing usable in it),
\* configured (for a host: the prefix with the unpacked dependencies), made.
NoCrossBuild == [d \in Dirs |-> "none"]
NoHostDist == [h \in HostNames |-> {}]

Event(kind, host, rc, env, files) ==
    [kind |-> kind, host |-> host, rc |-> rc, env |-> env, files |-> files]

Cmd(kind, host, rc, env) == Event(kind, host, rc, env, {})
Log(kind, host) == Event(kind, host, "ok", NoneEnv, {})

BuildKinds ==
    {"configure-build", "make-build", "configure-host", "make-host", "package"}

\* The pcs inside build_cpython.
BuildDriverPcs ==
    {"build_cpython", "configure_build", "make_build", "host", "configure_host",
     "make_host", "package", "move_dist"}

PostPcs == {"debloat", "strip", "replace_shebangs"}

Ended == {"done", "aborted", "killed"}

\* How a run ended, for the run after it.
HowEnded(p, at) ==
    IF p = "done" THEN "done"
    ELSE IF at \in BuildDriverPcs THEN "in build_cpython" ELSE "elsewhere"

Rc == {"ok", "fail"}

\* What the strip pass finds under $ANDROID_HOME/ndk.
NdkStates == {"no_ndk_dir", "empty", "no_strip_bin", "ok"}

\* The pipeline follows the passes as steps of main(); their work on the
\* files is followed by the specifications of their own.
NoDebloatState ==
    /\ debloat_patterns = {}
    /\ tree = <<>>
    /\ tree0 = <<>>
    /\ attempted = {}
    /\ failedRemoval = {}

NoShebangState ==
    /\ shebang_mapping = <<>>
    /\ bindir = <<>>
    /\ bindir0 = <<>>
    /\ pending = {}
    /\ rewrites = <<>>
    /\ shellTried = {}

NoPassState == NoDebloatState /\ NoShebangState

Init ==
    /\ NoPassState
    /\ replaced = {}
    /\ environ \in [EnvVars -> {Unset, "set"}]
    /\ environ["CC"] = "set"
    /\ cfgFile \in ConfigFiles
    /\ sources = "absent"
    /\ crossBuild = NoCrossBuild
    /\ hostDist = NoHostDist
    /\ distDir = {}
    /\ resumed = FALSE
    /\ pc = "init"
    /\ python_conf = NoPythonConfig
    /\ module_conf = NoModuleConfig
    /\ configure_env = NoneEnv
    /\ idx = 0
    /\ todo = {}
    /\ module_name = None
    /\ module_ver = None
    /\ error = None
    /\ abortedAt = None
    /\ trace = <<>>
    /\ buildGate = None
    /\ gates = <<>>
    /\ startedComplete = FALSE
    /\ prevEnd = None
    /\ completed = {}

\* An uncaught exception ends the process where it is.
Raise(err) ==
    /\ pc' = "aborted"
    /\ error' = err
    /\ abortedAt' = pc

Go(next) == pc' = next /\ UNCHANGED <<error, abortedAt>>

Did(ev) == trace' = Append(trace, ev)

Hosts == python_conf.hosts

\* A gate that looks at cross-build/build whichever directory it is asked about.
ExistsBuildDir(d) == crossBuild["build"] # "none"

\* Path.exists() of cross-build/<d>
Exists(d) == crossBuild[d] # "none"

\* main(): what follows the passes that are switched off.
AfterStrip ==
    IF module_conf.replace_shebangs THEN "replace_shebangs" ELSE "module_init"

AfterDebloat == IF module_conf.strip THEN "strip" ELSE AfterStrip

AfterBuild == IF module_conf.debloat THEN "debloat" ELSE AfterDebloat

AfterSources == IF python_conf.apply_patches THEN "apply_patches" ELSE "build_cpython"

\* build_cpython: `for host in python_conf.hosts`, at position i.
HostLoop(i) == IF i > Len(Hosts) THEN AfterBuild ELSE "host"

\* ModuleBuilder.build: `for host in self.python_conf.hosts`, at position i.
ModuleLoop(i) == IF i > Len(Hosts) THEN "done" ELSE "module_build"

\* target.unlink() if it exists, then entry.rename(target); ZipFile(path, "w").
Put(dir, entry) == {e \in dir : e.name # entry.name} \cup {entry}

PkgFile(n, h) ==
    [name |-> <<n>>, kind |-> "pkg", host |-> h, tar |-> <<>>, prefix |-> None]

ZipFile(name, ver, h, prefix) ==
    [name |-> ZipName(name, ver, ArchOf(h)), kind |-> "zip", host |-> h,
     tar |-> TarName(PythonVer, ArchOf(h)), prefix |-> prefix]

\* --------------------------------------------------------------- actions

\* init(clear=args.clear)
RunInit ==
    /\ pc = "init"
    /\ \E clear \in BOOL, moduleDir \in BOOL :
        IF environ["ANDROID_HOME"] = Unset
        THEN Raise("OSError: ANDROID_HOME") /\ UNCHANGED <<fsVars, startedComplete>>
        ELSE IF ~moduleDir
        THEN Raise("FileNotFoundError: module") /\ UNCHANGED <<fsVars, startedComplete>>
        ELSE IF cfgFile.form = "missing"
        THEN Raise("FileNotFoundError: build.toml")
             /\ UNCHANGED <<fsVars, startedComplete>>
        ELSE /\ Go("load_config")
             /\ IF clear
                THEN /\ sources' = "absent"
                     /\ crossBuild' = NoCrossBuild
                     /\ hostDist' = NoHostDist
                     /\ distDir' = {}
                ELSE UNCHANGED fsVars
             /\ startedComplete' =
                    (/\ cfgFile.form = "ok"
                     /\ sources' # "absent"
                     /\ crossBuild'["build"] # "none"
                     /\ \A h \in Range(cfgFile.python.hosts) : crossBuild'[h] # "none")
    /\ UNCHANGED <<passVars, replaced, environ, cfgFile, resumed, python_conf,
                   module_conf, configure_env, idx, todo, module_name, module_ver,
                   trace, buildGate, gates, prevEnd, completed>>

\* load_config(BUILD_CONFIG_FILE)
LoadConfig ==
    /\ pc = "load_config"
    /\ IF cfgFile.form = "unparsable"
       THEN Raise("ValueError: parse") /\ UNCHANGED <<python_conf, module_conf>>
       ELSE IF cfgFile.form = "no_table"
       THEN Raise("ValueError: sections") /\ UNCHANGED <<python_conf, module_conf>>
       ELSE IF cfgFile.form = "missing_field"
       THEN Raise("TypeError: field") /\ UNCHANGED <<python_conf, module_conf>>
       ELSE /\ python_conf' = cfgFile.python
            /\ module_conf' = cfgFile.module
            /\ Go("get_cpython")
    /\ UNCHANGED <<passVars, replaced, environ, cfgFile, fsVars, resumed, configure_env,
                   idx, todo, module_name, module_ver, trace, histVars>>

\* get_cpython, to the end of download()
GetCpython ==
    /\ pc = "get_cpython"
    /\ IF sources # "absent"
       THEN Did(Log("existing-sources", NoHost)) /\ Go(AfterSources)
       ELSE \E rc \in Rc :
            /\ Did(Cmd("download", NoHost, rc, RunEnv(NoneEnv, environ)))
            /\ IF RunRaises(rc, TRUE)
               THEN Raise("CalledProcessError: curl")
               ELSE Go("extract")
    /\ UNCHANGED <<passVars, replaced, environ, cfgFile, fsVars, resumed, python_conf,
                   module_conf, configure_env, idx, todo, module_name, module_ver,
                   histVars>>

\* get_cpython, from tarfile.open to the return
Extract ==
    /\ pc = "extract"
    /\ \E rc \in Rc :
        /\ Did(Event("extract", NoHost, rc, NoneEnv, {}))
        /\ IF rc = "ok"
           THEN sources' = "present" /\ Go(AfterSources)
           ELSE sources' \in {"absent", "partial"} /\ Raise("TarError")
    /\ UNCHANGED <<passVars, replaced, environ, cfgFile, crossBuild, hostDist, distDir,
                   resumed, python_conf, module_conf, configure_env, idx, todo,
                   module_name, module_ver, histVars>>

\* apply_patches, to the loop
ApplyPatches ==
    /\ pc = "apply_patches"
    /\ \E dir \in PatchDirs :
        IF dir = NoDir \/ dir = {}
        THEN Go("build_cpython") /\ UNCHANGED todo
        ELSE Go("patch") /\ todo' = dir
    /\ UNCHANGED <<passVars, replaced, environ, cfgFile, fsVars, resumed, python_conf,
                   module_conf, configure_env, idx, module_name, module_ver, trace,
                   histVars>>

\* apply_patches: one round of `for entry in PATCHES_DIR.iterdir()`
Patch ==
    /\ pc = "patch"
    /\ \E p \in todo, rc \in Rc :
        /\ Did(Event("patch", NoHost, rc, RunEnv(NoneEnv, environ), {p}))
        /\ IF RunRaises(rc, TRUE)
           THEN Raise("CalledProcessError: patch") /\ UNCHANGED <<todo, completed>>
           ELSE /\ todo' = todo \ {p}
                /\ Go(IF todo' = {} THEN "build_cpython" ELSE "patch")
                /\ completed' = completed \cup {<<"patch", NoHost>>}
    /\ UNCHANGED <<passVars, replaced, environ, cfgFile, fsVars, resumed, python_conf,
                   module_conf, configure_env, idx, module_name, module_ver, buildGate,
                   gates, startedComplete, prevEnd>>

\* build_cpython, to the first command: the environment of the configure
\* steps and the look at cross-build/build
BuildCpython ==
    /\ pc = "build_cpython"
    /\ IF ~python_conf.configure_env.mapping
       THEN /\ Raise("ValueError: configure_env")
            /\ UNCHANGED <<environ, configure_env, idx, buildGate>>
       ELSE /\ configure_env' = Overlay(environ, python_conf.configure_env.vars)
            /\ environ' = EnvironAfterCopy(environ, python_conf.configure_env.vars)
            /\ buildGate' = IF crossBuild["build"] # "none" THEN "existed" ELSE "missing"
            /\ idx' = 1
            /\ Go(IF Exists("build") THEN HostLoop(1) ELSE "configure_build")
    /\ UNCHANGED <<passVars, replaced, cfgFile, fsVars, resumed, python_conf,
                   module_conf, todo, module_name, module_ver, trace, gates,
                   startedComplete, prevEnd, completed>>

\* A build command that failed may have left its directory behind.
LeftBy(d) == {crossBuild[d]} \cup (IF crossBuild[d] = "none" THEN {"dir"} ELSE {})

\* run([android_py, "configure-build", ...], env=configure_env)
ConfigureBuild ==
    /\ pc = "configure_build"
    /\ \E rc \in Rc :
        /\ Did(Cmd("configure-build", NoHost, rc, RunEnv(configure_env, environ)))
        /\ IF RunRaises(rc, TRUE)
           THEN /\ Raise("CalledProcessError: configure-build")
                /\ \E left \in LeftBy("build") :
                    crossBuild' = [crossBuild EXCEPT !["build"] = left]
                /\ UNCHANGED completed
           ELSE /\ Go("make_build")
                /\ crossBuild' = [crossBuild EXCEPT !["build"] = "configured"]
                /\ completed' = completed \cup {<<"configure-build", NoHost>>}
    /\ UNCHANGED <<passVars, replaced, environ, cfgFile, sources, hostDist, distDir,
                   resumed, python_conf, module_conf, configure_env, idx, todo,
                   module_name, module_ver, buildGate, gates, startedComplete, prevEnd>>

\* run([android_py, "make-build"])
MakeBuild ==
    /\ pc = "make_build"
    /\ \E rc \in Rc :
        /\ Did(Cmd("make-build", NoHost, rc, RunEnv(NoneEnv, environ)))
        /\ IF RunRaises(rc, TRUE)
           THEN /\ Raise("CalledProcessError: make-build")
                /\ UNCHANGED <<crossBuild, completed>>
           ELSE /\ Go(HostLoop(1))
                /\ crossBuild' = [crossBuild EXCEPT !["build"] = "made"]
                /\ completed' = completed \cup {<<"make-build", NoHost>>}
    /\ UNCHANGED <<passVars, replaced, environ, cfgFile, sources, hostDist, distDir,
                   resumed, python_conf, module_conf, configure_env, idx, todo,
                   module_name, module_ver, buildGate, gates, startedComplete, prevEnd>>

\* build_cpython: the head of one round of `for host in python_conf.hosts`
Host ==
    /\ pc = "host"
    /\ LET h == Hosts[idx] IN
        /\ gates' = Append(gates, crossBuild[h] # "none")
        /\ IF Exists(h)
           THEN /\ Did(Log("skip", h))
                /\ idx' = idx + 1
                /\ Go(HostLoop(idx + 1))
           ELSE /\ Did(Log("building", h))
                /\ idx' = idx
                /\ Go("configure_host")
    /\ UNCHANGED <<passVars, replaced, environ, cfgFile, fsVars, resumed, python_conf,
                   module_conf, configure_env, todo, module_name, module_ver, buildGate,
                   startedComplete, prevEnd, completed>>

\* run([android_py, "configure-host", host, ...], env=configure_env)
ConfigureHost ==
    /\ pc = "configure_host"
    /\ \E rc \in Rc : LET h == Hosts[idx] IN
        /\ Did(Cmd("configure-host", h, rc, RunEnv(configure_env, environ)))
        /\ IF RunRaises(rc, TRUE)
           THEN /\ Raise("CalledProcessError: configure-host")
                /\ \E left \in LeftBy(h) : crossBuild' = [crossBuild EXCEPT ![h] = left]
                /\ UNCHANGED completed
           ELSE /\ Go("make_host")
                /\ crossBuild' = [crossBuild EXCEPT ![h] = "configured"]
                /\ completed' = completed \cup {<<"configure-host", h>>}
    /\ UNCHANGED <<passVars, replaced, environ, cfgFile, sources, hostDist, distDir,
                   resumed, python_conf, module_conf, configure_env, idx, todo,
                   module_name, module_ver, buildGate, gates, startedComplete, prevEnd>>

\* run([android_py, "make-host", host]), and `if python_conf.package`
MakeHost ==
    /\ pc = "make_host"
    /\ \E rc \in Rc : LET h == Hosts[idx] IN
        /\ Did(Cmd("make-host", h, rc, RunEnv(NoneEnv, environ)))
        /\ IF RunRaises(rc, TRUE)
           THEN /\ Raise("CalledProcessError: make-host")
                /\ UNCHANGED <<crossBuild, completed, idx>>
           ELSE /\ crossBuild' = [crossBuild EXCEPT ![h] = "made"]
                /\ completed' = completed \cup {<<"make-host", h>>}
                /\ IF python_conf.package
                   THEN Go("package") /\ idx' = idx
                   ELSE Go(HostLoop(idx + 1)) /\ idx' = idx + 1
    /\ UNCHANGED <<passVars, replaced, environ, cfgFile, sources, hostDist, distDir,
                   resumed, python_conf, module_conf, configure_env, todo, module_name,
                   module_ver, buildGate, gates, startedComplete, prevEnd>>

\* run([android_py, "package", host])
Package ==
    /\ pc = "package"
    /\ \E rc \in Rc : LET h == Hosts[idx] IN
        IF RunRaises(rc, TRUE)
        THEN /\ Did(Cmd("package", h, rc, RunEnv(NoneEnv, environ)))
             /\ Raise("CalledProcessError: package")
             /\ UNCHANGED <<hostDist, completed>>
        ELSE \E names \in SUBSET PkgNames :
             /\ Did(Event("package", h, rc, RunEnv(NoneEnv, environ), names))
             /\ hostDist' = [hostDist EXCEPT ![h] = names]
             /\ completed' = completed \cup {<<"package", h>>}
             /\ Go("move_dist")
    /\ UNCHANGED <<passVars, replaced, environ, cfgFile, sources, crossBuild, distDir,
                   resumed, python_conf, module_conf, configure_env, idx, todo,
                   module_name, module_ver, buildGate, gates, startedComplete, prevEnd>>

\* build_cpython: `for entry in dist.iterdir()`, the move into DIST_DIR
MoveDist ==
    /\ pc = "move_dist"
    /\ LET h == Hosts[idx]
           moved == {PkgFile(n, h) : n \in hostDist[h]}
       IN /\ distDir' = {e \in distDir : e.name \notin {m.name : m \in moved}} \cup moved
          /\ replaced' = replaced \cup {e \in distDir : e.name \in {m.name : m \in moved}}
          /\ hostDist' = [hostDist EXCEPT ![h] = {}]
          /\ Did(Event("move", h, "ok", NoneEnv, hostDist[h]))
          /\ completed' = completed \cup {<<"move", h>>}
    /\ idx' = idx + 1
    /\ Go(HostLoop(idx + 1))
    /\ UNCHANGED <<passVars, environ, cfgFile, sources, crossBuild, resumed, python_conf,
                   module_conf, configure_env, todo, module_name, module_ver,
                   buildGate, gates, startedComplete, prevEnd>>

\* The process is terminated (an interrupt signal) inside build_cpython.
Interrupt ==
    /\ pc \in BuildDriverPcs
    /\ pc' = "killed"
    /\ error' = "KeyboardInterrupt"
    /\ abortedAt' = pc
    /\ UNCHANGED <<passVars, replaced, environ, cfgFile, fsVars, resumed, python_conf,
                   module_conf, configure_env, idx, todo, module_name, module_ver,
                   trace, histVars>>

\* debloat(): every deletion that fails is logged and passed over
Debloat ==
    /\ pc = "debloat"
    /\ Did(Log("debloat", NoHost))
    /\ Go(AfterDebloat)
    /\ UNCHANGED <<passVars, replaced, environ, cfgFile, fsVars, resumed, python_conf,
                   module_conf, configure_env, idx, todo, module_name, module_ver,
                   histVars>>

\* strip(): the newest NDK's llvm-strip on the files of bin/ and lib/
Strip ==
    /\ pc = "strip"
    /\ \E ndk \in NdkStates, rc \in Rc :
        IF ndk = "no_ndk_dir"
        THEN Raise("FileNotFoundError: ndk") /\ UNCHANGED trace
        ELSE IF ndk = "empty"
        THEN Raise("IndexError: installed_ndks") /\ UNCHANGED trace
        ELSE IF ndk = "no_strip_bin"
        THEN Did(Log("strip-not-found", NoHost)) /\ Go(AfterStrip)
        ELSE /\ Did(Cmd("strip", NoHost, rc, RunEnv(NoneEnv, environ)))
             /\ IF RunRaises(rc, FALSE)
                THEN Raise("CalledProcessError: strip")
                ELSE Go(AfterStrip)
    /\ UNCHANGED <<passVars, replaced, environ, cfgFile, fsVars, resumed, python_conf,
                   module_conf, configure_env, idx, todo, module_name, module_ver,
                   histVars>>

\* Whether <prefix>/bin is there: it is once make-host has installed into the
\* prefix, and may or may not be before.
BinDirs(h) == IF crossBuild[h] = "made" THEN {TRUE} ELSE BOOL

\* replace_shebangs(): bindir.iterdir() of every host, then the rewrites
ReplaceShebangs ==
    /\ pc = "replace_shebangs"
    /\ \E bin \in [Range(Hosts) -> BOOL] :
        /\ \A h \in Range(Hosts) : bin[h] \in BinDirs(h)
        /\ IF \E h \in Range(Hosts) : ~bin[h]
           THEN Raise("FileNotFoundError: bin") /\ UNCHANGED trace
           ELSE Did(Log("replace_shebangs", NoHost)) /\ Go("module_init")
    /\ UNCHANGED <<passVars, replaced, environ, cfgFile, fsVars, resumed, python_conf,
                   module_conf, configure_env, idx, todo, module_name, module_ver,
                   histVars>>

\* ModuleBuilder.__init__
ModuleInit ==
    /\ pc = "module_init"
    /\ \E exists \in BOOL, prop \in PropFiles :
        LET values == getprops(prop, {"name", "version"}) IN
        IF ~exists
        THEN Raise("FileNotFoundError: module.prop")
             /\ UNCHANGED <<module_name, module_ver, idx>>
        ELSE IF Len(values) # Cardinality({"name", "version"})
        THEN Raise("ValueError: unpack") /\ UNCHANGED <<module_name, module_ver, idx>>
        ELSE /\ module_name' = values[1]
             /\ module_ver' = values[2]
             /\ idx' = 1
             /\ Go(ModuleLoop(1))
    /\ UNCHANGED <<passVars, replaced, environ, cfgFile, fsVars, resumed, python_conf,
                   module_conf, configure_env, todo, trace, histVars>>

\* ModuleBuilder.build: one round of `for host in self.python_conf.hosts`
ModuleBuild ==
    /\ pc = "module_build"
    /\ LET h == Hosts[idx] IN
        IF crossBuild[h] \in {"none", "dir"}
        THEN Raise("FileNotFoundError: prefix")
             /\ UNCHANGED <<distDir, trace, idx, replaced>>
        ELSE /\ distDir' = Put(distDir, ZipFile(module_name, module_ver, h, crossBuild[h]))
             /\ replaced' = replaced \cup
                    {e \in distDir :
                        e.name = ZipName(module_name, module_ver, ArchOf(h))}
             /\ Did(Log("zip", h))
             /\ idx' = idx + 1
             /\ Go(ModuleLoop(idx + 1))
    /\ UNCHANGED <<passVars, environ, cfgFile, sources, crossBuild, hostDist,
                   resumed, python_conf, module_conf, configure_env, todo,
                   module_name, module_ver, histVars>>

\* The driver is started again over the project directory as the last run
\* left it.
Rerun ==
    /\ pc \in Ended
    /\ ~resumed
    /\ resumed' = TRUE
    /\ pc' = "init"
    /\ python_conf' = NoPythonConfig
    /\ module_conf' = NoModuleConfig
    /\ configure_env' = NoneEnv
    /\ idx' = 0
    /\ todo' = {}
    /\ module_name' = None
    /\ module_ver' = None
    /\ error' = None
    /\ abortedAt' = None
    /\ trace' = <<>>
    /\ buildGate' = None
    /\ gates' = <<>>
    /\ startedComplete' = FALSE
    /\ prevEnd' = HowEnded(pc, abortedAt)
    /\ replaced' = {}
    /\ UNCHANGED <<passVars, environ, cfgFile, fsVars, completed>>

Next ==
    \/ RunInit
    \/ LoadConfig
    \/ GetCpython
    \/ Extract
    \/ ApplyPatches
    \/ Patch
    \/ BuildCpython
    \/ ConfigureBuild
    \/ MakeBuild
    \/ Host
    \/ ConfigureHost
    \/ MakeHost
    \/ Package
    \/ MoveDist
    \/ Interrupt
    \/ Debloat
    \/ Strip
    \/ ReplaceShebangs
    \/ ModuleInit
    \/ ModuleBuild
    \/ Rerun

Spec == Init /\ [][Next]_vars

\* ------------------------------------------------- the debloat pass, by
\* entry: debloat() over the prefixes of two hosts

\* The hosts of the passes' own specifications.
PassHosts == <<"armv7a-linux-androideabi", "riscv64-linux-android">>

\* The entries a prefix may hold, as paths below it.
PrefixPaths ==
    {<<"bin">>, <<"lib">>, <<"lib", "test">>, <<"lib", "test", "t.py">>,
     <<"lib", "libpython3.so">>}

DirPaths == {<<"bin">>, <<"lib">>, <<"lib", "test">>}

IsUnder(p, q) == IsPrefix(q, p)

\* A set of paths is a tree when every entry's parent is in it.
IsTree(t) == \A p \in t : Len(p) > 1 => SubSeq(p, 1, Len(p) - 1) \in t

Trees == {t \in SUBSET PrefixPaths : IsTree(t)}

\* module.debloat_patterns: a pattern is its segments (a name, "*" or "**"),
\* and an exclusion when it starts with "!".
Pattern(neg, segs) == [neg |-> neg, segs |-> segs]

PatternPool ==
    {Pattern(FALSE, <<"lib", "test">>), Pattern(FALSE, <<"**", "t.py">>),
     Pattern(FALSE, <<"lib", "*">>), Pattern(TRUE, <<"lib", "libpython3.so">>),
     Pattern(FALSE, <<"bin">>)}

\* Whether the glob pattern matches the path, segment by segment: "*" is any
\* one name, "**" (flag GLOBSTAR) any number of names.
RECURSIVE GlobMatch(_, _)
GlobMatch(segs, path) ==
    IF segs = <<>> THEN path = <<>>
    ELSE IF Head(segs) = "**"
    THEN \/ GlobMatch(Tail(segs), path)
         \/ path # <<>> /\ GlobMatch(segs, Tail(path))
    ELSE /\ path # <<>>
         /\ Head(segs) \in {"*", Head(path)}
         /\ GlobMatch(Tail(segs), Tail(path))

\* What the pattern list selects (flag NEGATE): a pattern matches and no
\* exclusion pattern does.
Selected(path, patterns) ==
    /\ \E q \in patterns : ~q.neg /\ GlobMatch(q.segs, path)
    /\ ~\E q \in patterns : q.neg /\ GlobMatch(q.segs, path)

\* A glob without the flag NEGATE: the "!" patterns exclude nothing.
YieldsIgnoringExclusions(h) ==
    {p \in tree[h] \ attempted :
        \E q \in debloat_patterns : ~q.neg /\ GlobMatch(q.segs, p)}

\* prefix.glob(patterns, flags=GL | B | E | N): the entries it has yet to yield.
Yields(h) == {p \in tree[h] \ attempted : Selected(p, debloat_patterns)}

\* entry.unlink() or rmtree(entry), done: the entry and all below it are gone.
Removed(t, p) == {q \in t : ~IsUnder(q, p)}

\* What a removal that raised OSError may leave: the entry itself, and below
\* a directory any tree of what was there.
LeftByFailure(t, p) ==
    IF p \in DirPaths
    THEN {u \in SUBSET t : IsTree(u) /\ p \in u /\ \A q \in t \ u : IsUnder(q, p)}
    ELSE {t}

\* main() has reached the pass p: the hosts are built, nothing has failed.
AtPass(p) ==
    /\ replaced = {}
    /\ environ = [v \in EnvVars |-> "set"]
    /\ cfgFile =
        [form |-> "ok", python |-> [NoPythonConfig EXCEPT !.hosts = PassHosts],
         module |-> [debloat |-> TRUE, strip |-> FALSE, replace_shebangs |-> TRUE]]
    /\ sources = "present"
    /\ crossBuild = [d \in Dirs |-> IF d \in {"build"} \cup Range(PassHosts)
                                     THEN "made" ELSE "none"]
    /\ hostDist = NoHostDist
    /\ distDir = {}
    /\ resumed = FALSE
    /\ pc = p
    /\ python_conf = cfgFile.python
    /\ module_conf = cfgFile.module
    /\ configure_env = environ
    /\ idx = 1
    /\ todo = {}
    /\ module_name = None
    /\ module_ver = None
    /\ error = None
    /\ abortedAt = None
    /\ trace = <<>>
    /\ buildGate = "missing"
    /\ gates = <<FALSE, FALSE>>
    /\ startedComplete = FALSE
    /\ prevEnd = None
    /\ completed = {}

InitDebloat ==
    /\ AtPass("debloat")
    /\ NoShebangState
    /\ debloat_patterns \in SUBSET PatternPool
    /\ tree \in [Range(PassHosts) -> Trees]
    /\ tree0 = tree
    /\ attempted = {}
    /\ failedRemoval = {}

notDebloatVars ==
    <<environ, cfgFile, fsVars, resumed, python_conf, module_conf, configure_env,
      todo, module_name, module_ver, error, abortedAt, trace, histVars, replaced,
      debloat_patterns, tree0, shebangVars>>

\* debloat(): one round of `for entry in prefix.glob(...)`
DebloatEntry ==
    /\ pc = "debloat"
    /\ idx <= Len(Hosts)
    /\ LET h == Hosts[idx] IN
        \E p \in Yields(h), raised \in BOOL :
            /\ attempted' = attempted \cup {p}
            /\ IF raised
               THEN /\ \E left \in LeftByFailure(tree[h], p) :
                        tree' = [tree EXCEPT ![h] = left]
                    /\ failedRemoval' = failedRemoval \cup {<<h, p>>}
               ELSE /\ tree' = [tree EXCEPT ![h] = Removed(tree[h], p)]
                    /\ UNCHANGED failedRemoval
    /\ UNCHANGED <<pc, idx, notDebloatVars>>

\* debloat(): the glob of one host is exhausted; on to the next host, or out
DebloatNextHost ==
    /\ pc = "debloat"
    /\ idx <= Len(Hosts)
    /\ Yields(Hosts[idx]) = {}
    /\ idx' = idx + 1
    /\ attempted' = {}
    /\ pc' = IF idx + 1 > Len(Hosts) THEN AfterDebloat ELSE "debloat"
    /\ UNCHANGED <<tree, failedRemoval, notDebloatVars>>

NextDebloat == DebloatEntry \/ DebloatNextHost

SpecDebloat == InitDebloat /\ [][NextDebloat]_vars

\* ------------------------------------------------- the shebang pass, by
\* file: replace_shebangs() over prefix/bin of two hosts

\* What a file holds, in units of 512 bytes: an interpreter line of one kind
\* or another, plain text, bytes is_binary counts as binary, or bytes over
\* 0x7F that are no UTF-8.
PythonShebang == "#!/system/bin/python3"
ShellShebang == "#!/system/bin/sh"
Units == {"#!/usr/bin/python3.12", "#!/bin/sh", PythonShebang, ShellShebang,
          "text", "NUL", "0xFF"}

\* f.read(1024) reads this many units.
ReadSize == 2

\* is_binary(): what is left of the bytes once the text characters are taken
\* out of them.
textchars == Units \ {"NUL"}
is_binary(b) == \E i \in 1..Len(b) : b[i] \notin textchars

FirstRead(content) ==
    SubSeq(content, 1, IF Len(content) < ReadSize THEN Len(content) ELSE ReadSize)

\* bytes.decode(): UnicodeDecodeError on bytes that are no UTF-8.
Decodes(content) == \A i \in 1..Len(content) : content[i] # "0xFF"

\* A compiled pattern is the set of the units it matches.
\* pattern.match(content): a match at the start of the content.
Match(pattern, content) == content # <<>> /\ Head(content) \in pattern

\* pattern.sub(replacement, content, count): the leftmost matches replaced.
RECURSIVE Sub(_, _, _, _)
Sub(pattern, replacement, content, count) ==
    IF content = <<>> \/ count = 0 THEN content
    ELSE IF Head(content) \in pattern
    THEN <<replacement>> \o Sub(pattern, replacement, Tail(content), count - 1)
    ELSE <<Head(content)>> \o Sub(pattern, replacement, Tail(content), count)

\* How opening a file for writing and writing to it goes: it works, the open
\* raises OSError, or the write raises OSError once the open has truncated
\* the file.
WriteModes == {"ok", "open raises", "write raises"}

File(content, readable, write) ==
    [content |-> content, readable |-> readable, write |-> write]

Unreplaced(f) == [file |-> f, replaced |-> FALSE]

\* replace_shebang(file, pattern, replacement): the file after the call, and
\* what the call returned.
replace_shebang(f, pattern, replacement) ==
    IF ~f.readable THEN Unreplaced(f)
    ELSE IF is_binary(FirstRead(f.content)) THEN Unreplaced(f)
    ELSE IF ~Decodes(f.content) THEN Unreplaced(f)
    ELSE IF ~Match(pattern, f.content) THEN Unreplaced(f)
    ELSE IF f.write = "open raises" THEN Unreplaced(f)
    ELSE IF f.write = "write raises" THEN Unreplaced([f EXCEPT !.content = <<>>])
    ELSE [file |-> [f EXCEPT !.content = Sub(pattern, replacement, f.content, 1)],
          replaced |-> TRUE]

\* The entries of prefix/bin: two scripts, and idle3, which an install makes
\* a symbolic link to idle3.12.
BinNames == {"idle3.12", "idle3", "python3-config"}
Scripts == {"idle3.12", "python3-config"}
EntryKinds == {"absent", "dir", "link"}

\* The file an entry names.
FileOf(name) == IF name = "idle3" THEN "idle3.12" ELSE name

\* Path.is_file() follows symbolic links.
is_file(dir, name) == name \in Scripts \/ dir.idle3 = "link"

\* bindir.iterdir()
iterdir(dir) == {n \in BinNames : n \in Scripts \/ dir.idle3 # "absent"}

Contents ==
    {<<a, b, c>> : a \in {"#!/usr/bin/python3.12", "#!/bin/sh", "text"},
                   b \in {"text", "NUL"},
                   c \in {"text", "0xFF", "#!/usr/bin/python3.12"}}

BinDirStates ==
    {[idle3 |-> k,
      files |-> ("idle3.12" :> f @@
                 "python3-config" :> File(<<t, "text", "text">>, TRUE, "ok"))] :
        k \in EntryKinds,
        f \in {File(c, r, w) : c \in Contents, r \in BOOL, w \in WriteModes},
        t \in {"#!/bin/sh", "text"}}

\* module.shebang_mapping, compiled.
PythonPatterns ==
    {{"#!/usr/bin/python3.12"}, {"#!/usr/bin/python3.12", PythonShebang},
     {"#!/usr/bin/python3.12", "#!/bin/sh"}}
ShellPatterns == {{"#!/bin/sh"}, {"#!/bin/sh", PythonShebang, ShellShebang}}

InitShebang ==
    /\ AtPass("replace_shebangs")
    /\ NoDebloatState
    /\ shebang_mapping \in [python : PythonPatterns, shell : ShellPatterns]
    /\ \E d \in BinDirStates :
        /\ bindir = [h \in Range(PassHosts) |-> d]
        /\ pending = iterdir(d)
    /\ bindir0 = bindir
    /\ rewrites = [h \in Range(PassHosts) |-> [f \in Scripts |-> 0]]
    /\ shellTried = {}

notShebangVars ==
    <<environ, cfgFile, fsVars, resumed, python_conf, module_conf, configure_env,
      todo, module_name, module_ver, error, abortedAt, trace, histVars, replaced,
      debloatVars, shebang_mapping, bindir0>>

\* replace_shebangs(): one round of `for file in (f for f in bindir.iterdir()
\* if f.is_file())`, with its loop over the patterns
ShebangFile ==
    /\ pc = "replace_shebangs"
    /\ idx <= Len(Hosts)
    /\ LET h == Hosts[idx] IN
        \E name \in pending :
            /\ pending' = pending \ {name}
            /\ IF is_file(bindir[h], name)
               THEN LET file == FileOf(name)
                        python == replace_shebang(bindir[h].files[file],
                                                  shebang_mapping.python, PythonShebang)
                        shell == replace_shebang(python.file,
                                                 shebang_mapping.shell, ShellShebang)
                        last == IF python.replaced THEN python ELSE shell
                    IN  /\ bindir' = [bindir EXCEPT ![h].files[file] = last.file]
                        /\ rewrites' =
                            [rewrites EXCEPT ![h][file] =
                                IF last.replaced THEN @ + 1 ELSE @]
                        /\ shellTried' =
                            IF python.replaced THEN shellTried
                            ELSE shellTried \cup {<<h, name>>}
               ELSE UNCHANGED <<bindir, rewrites, shellTried>>
    /\ UNCHANGED <<pc, idx, notShebangVars>>

\* replace_shebangs(): bin/ of one host is through; on to the next host, or out
ShebangNextHost ==
    /\ pc = "replace_shebangs"
    /\ idx <= Len(Hosts)
    /\ pending = {}
    /\ idx' = idx + 1
    /\ IF idx + 1 > Len(Hosts)
       THEN pc' = "module_init" /\ pending' = {}
       ELSE pc' = pc /\ pending' = iterdir(bindir[Hosts[idx + 1]])
    /\ UNCHANGED <<bindir, rewrites, shellTried, notShebangVars>>

NextShebang == ShebangFile \/ ShebangNextHost

SpecShebang == InitShebang /\ [][NextShebang]_vars

\* ------------------------------------------------------------------ claims

Kinds(tr) == {tr[i].kind : i \in 1..Len(tr)}

\* Download, extraction, patching and the build driver's commands.
WorkKinds == {"download", "extract", "patch"} \cup BuildKinds

\* main() is past build_cpython.
PastBuild == PostPcs \cup {"module_init", "module_build", "done"}

IsDriverEvent(e) == e.kind \in BuildKinds \cup {"skip", "move"}

Shape(e) == <<e.kind, e.host>>

DriverEvents == SelectSeq(trace, IsDriverEvent)

ExpectedOfHost(h, existed) ==
    IF existed THEN << <<"skip", h>> >>
    ELSE << <<"configure-host", h>>, <<"make-host", h>> >>
         \o (IF python_conf.package
             THEN << <<"package", h>>, <<"move", h>> >>
             ELSE <<>>)

RECURSIVE ExpectedOfHosts(_)
ExpectedOfHosts(i) ==
    IF i > Len(gates) THEN <<>>
    ELSE ExpectedOfHost(Hosts[i], gates[i]) \o ExpectedOfHosts(i + 1)

\* What build_cpython is to do, given what existed each time it looked.
ExpectedDriverEvents ==
    (IF buildGate = "missing"
     THEN << <<"configure-build", NoHost>>, <<"make-build", NoHost>> >>
     ELSE <<>>)
    \o ExpectedOfHosts(1)

\* C1: in one build_cpython invocation configure-build then make-build run
\* once, before any host command, exactly when cross-build/build did not
\* exist; each host in configured order is skipped when cross-build/<host>
\* exists and otherwise gets configure-host, make-host and, when packaging is
\* enabled, package; after package every entry of the host's dist/ is in the
\* output directory under its name, in place of any file of that name.
C1_DriverOrder ==
    LET ev == DriverEvents
        shapes == [i \in 1..Len(ev) |-> Shape(ev[i])]
    IN /\ IsPrefix(shapes, ExpectedDriverEvents)
       /\ Len(gates) <= Len(Hosts)
       /\ pc \in PastBuild =>
            /\ shapes = ExpectedDriverEvents
            /\ Len(gates) = Len(Hosts)
            /\ buildGate \in {"missing", "existed"}
       /\ \A i \in 1..Len(ev) : ev[i].kind = "move" => ev[i].files = ev[i - 1].files
       /\ \A e1, e2 \in distDir : e1.name = e2.name => e1 = e2
       /\ (trace # <<>> /\ trace[Len(trace)].kind = "move") =>
            LET m == trace[Len(trace)] IN
            /\ hostDist[m.host] = {}
            /\ \A n \in m.files : PkgFile(n, m.host) \in distDir

\* C1's case: a resumed run that skipped a host, built and packaged another,
\* and moved a package over a file of the same name.
C1_Witness ==
    /\ pc = "done"
    /\ buildGate = "existed"
    /\ \E i, j \in 1..Len(trace) :
        /\ trace[i].kind = "skip"
        /\ trace[j].kind = "move"
        /\ trace[j].files # {}
        /\ trace[i].host # trace[j].host
        /\ \E e \in replaced : e.kind = "pkg" /\ e.host = trace[i].host

\* A command that returned a nonzero exit status is the last thing the run did.
C2_FailedCommandIsLast ==
    \A i \in 1..Len(trace) :
        (trace[i].kind \in {"patch"} \cup BuildKinds /\ trace[i].rc = "fail")
        => (i = Len(trace) /\ pc = "aborted")

\* The step that ends a run leaves what is on the disk.
C2_NothingRolledBack ==
    pc' = "aborted" =>
        /\ sources = "present" => sources' = "present"
        /\ \A d \in Dirs : crossBuild[d] # "none" => crossBuild'[d] = crossBuild[d]
        /\ hostDist' = hostDist
        /\ distDir' = distDir

\* C2: when a build-driver or patch command returns a nonzero exit status
\* the run ends at that command (nothing is run after it: no command for the
\* host or a later one, no pass, no packaging), and the step that ends the
\* run takes back nothing that was written.
C2_AbortAtFailure == [](C2_FailedCommandIsLast) /\ [][C2_NothingRolledBack]_vars

\* C2's case: make-host failed for a host that is not the last, with passes
\* switched on, after other commands had written their directories.
C2_Witness ==
    /\ pc = "aborted"
    /\ trace # <<>>
    /\ trace[Len(trace)].kind = "make-host"
    /\ trace[Len(trace)].rc = "fail"
    /\ idx < Len(Hosts)
    /\ module_conf.debloat
    /\ crossBuild["build"] = "made"

\* C3 (as claimed): after ModuleBuilder.build the output directory holds one
\* module zip per configured host, N of them for N hosts, each named
\* {module_name}-{module_version}-{arch}.zip and holding that host's prefix.
C3_OneZipPerHost ==
    pc = "done" =>
        LET zips == {e \in distDir : e.kind = "zip"} IN
        /\ \A h \in Range(Hosts) :
            \E z \in zips :
                /\ z.name = ZipName("Py2Droid", "v1", ArchOf(h))
                /\ z.host = h
                /\ z.tar = TarName(PythonVer, ArchOf(h))
        /\ Cardinality(zips) = Cardinality(Range(Hosts))

ConfigErrors ==
    {"OSError: ANDROID_HOME", "FileNotFoundError: module",
     "FileNotFoundError: build.toml", "FileNotFoundError: module.prop",
     "ValueError: unpack", "ValueError: parse", "ValueError: sections",
     "TypeError: field", "ValueError: configure_env"}

\* C4 (as claimed): when a configuration error ends the run, no download, no
\* patch and no build-driver command has been executed.
C4_ConfigErrorsBeforeWork ==
    (pc = "aborted" /\ error \in ConfigErrors) => Kinds(trace) \cap WorkKinds = {}

\* C5 (as claimed): no failure inside a post-processing pass ends the run.
C5_PassesNeverAbort == pc = "aborted" => abortedAt \notin PostPcs

\* C6 (as claimed): when the run after one that ended inside build_cpython
\* reaches packaging, configure-build and make-build have completed in one of
\* the runs, and so have configure-host and make-host (and, when packaging is
\* enabled, package and the move of its files) for every configured host.
C6_ResumeCompletesBuild ==
    (/\ resumed
     /\ prevEnd = "in build_cpython"
     /\ pc \in {"module_init", "module_build", "done"})
    => /\ {<<"configure-build", NoHost>>, <<"make-build", NoHost>>} \subseteq completed
       /\ \A h \in Range(Hosts) :
            /\ {<<"configure-host", h>>, <<"make-host", h>>} \subseteq completed
            /\ python_conf.package => {<<"package", h>>, <<"move", h>>} \subseteq completed

\* C7 (as claimed): a run started over existing sources, an existing
\* cross-build/build and an existing cross-build/<host> for every host does
\* no download, no extraction, no build-driver command and applies no patch.
C7_NothingRedone == startedComplete => Kinds(trace) \cap WorkKinds = {}

\* C9 (as claimed): every child build process receives the parent's
\* environment overlaid with the configured extra variables.
C9_EveryChildGetsOverlay ==
    \A i \in 1..Len(trace) :
        trace[i].kind \in BuildKinds
        => trace[i].env = Overlay(environ, python_conf.configure_env.vars)

\* The environment of each child build process.
C9_ChildEnvs ==
    \A i \in 1..Len(trace) :
        /\ trace[i].kind \in {"configure-build", "configure-host"}
            => trace[i].env = Overlay(environ, python_conf.configure_env.vars)
        /\ trace[i].kind \in {"make-build", "make-host", "package"}
            => trace[i].env = environ

\* C9 (amended): configure-build and configure-host receive the parent's
\* environment overlaid with the configured extra variables; make-build,
\* make-host and package receive the parent's environment as it is; and no
\* step changes the parent's environment.
C9_EnvPerCommand == [](C9_ChildEnvs) /\ [][environ' = environ]_vars

\* C9's case: with an extra variable configured, a configure step and a make
\* step have both run.
C9_Witness ==
    /\ python_conf.configure_env.vars # NoEnv
    /\ {"configure-host", "make-host", "package"} \subseteq Kinds(trace)

DebloatDone == pc # "debloat"

\* The entry is not selected and lies under no selected directory.
Untouched(h, p) == ~\E q \in tree0[h] : IsUnder(p, q) /\ Selected(q, debloat_patterns)

\* C8 (as claimed): after the debloat pass no entry under any host's prefix
\* is one the patterns select, and every entry that is not selected and lies
\* under no selected directory is still there.
C8_NoMatchLeft ==
    DebloatDone =>
        \A h \in Range(Hosts) :
            /\ \A p \in tree[h] : ~Selected(p, debloat_patterns)
            /\ \A p \in tree0[h] : Untouched(h, p) => p \in tree[h]

\* C8 (amended): after the debloat pass every entry under a host's prefix
\* that the patterns select (a pattern matches it and no "!" pattern does) is
\* one whose removal failed, every entry that is not selected and lies under
\* no selected directory is still there, and the pass has added no entry.
C8_NoMatchLeftButFailures ==
    DebloatDone =>
        \A h \in Range(Hosts) :
            /\ \A p \in tree[h] :
                Selected(p, debloat_patterns) => <<h, p>> \in failedRemoval
            /\ \A p \in tree0[h] : Untouched(h, p) => p \in tree[h]
            /\ tree[h] \subseteq tree0[h]

\* C8's case: the pass is over; on one host a removal failed and a later one
\* went through, the other host lost an entry, and an entry the patterns
\* spare, next to selected ones, is still there.
C8_Witness ==
    /\ DebloatDone
    /\ \E h1, h2 \in Range(Hosts) :
        /\ h1 # h2
        /\ \E p \in tree[h1] : <<h1, p>> \in failedRemoval
        /\ \E p \in tree0[h1] \ tree[h1] : Selected(p, debloat_patterns)
        /\ tree[h2] # tree0[h2]
        /\ \E p \in tree[h2] : GlobMatch(<<"lib", "*">>, p) /\ Untouched(h2, p)
    /\ Pattern(FALSE, <<"lib", "*">>) \in debloat_patterns

ShebangDone == pc # "replace_shebangs"

StartReplaced(content, replacement) == <<replacement>> \o Tail(content)

Reads(f) == f.readable /\ Decodes(f.content)

\* C10 (as claimed): once the shebang pass is over, of the regular files of
\* every host's bin/: one classified binary is as it was; a text file that
\* starts with a match of the python pattern has that match, and nothing
\* else, replaced by #!/system/bin/python3 and was not tried against the
\* shell pattern; a text file that starts with a match of the shell pattern
\* only has that match replaced by #!/system/bin/sh; a file that matches
\* neither, or cannot be read or decoded, is as it was; and no file was
\* rewritten more than once.
C10_EveryFileRewrittenOnce ==
    ShebangDone =>
        \A h \in Range(Hosts), n \in Scripts :
            LET f0 == bindir0[h].files[n]
                f == bindir[h].files[n]
                python == Match(shebang_mapping.python, f0.content)
                shell == Match(shebang_mapping.shell, f0.content)
            IN  /\ rewrites[h][n] <= 1
                /\ IF is_binary(FirstRead(f0.content)) \/ ~Reads(f0)
                   THEN f = f0
                   ELSE IF python
                   THEN /\ f.content = StartReplaced(f0.content, PythonShebang)
                        /\ <<h, n>> \notin shellTried
                   ELSE IF shell
                   THEN f.content = StartReplaced(f0.content, ShellShebang)
                   ELSE f = f0

====
